---- MODULE Spec2Model ----
(***************************************************************************)
(* gobetter: generation of step-builder code for the struct types of a Go *)
(* source file (main.go, typefmt.go and their tests).                      *)
(*                                                                         *)
(* Identifiers and strings that the generator inspects character by       *)
(* character are sequences of ASCII codes ("a" = <<97>>, "B" = <<66>>).   *)
(* A source file is its parse tree: the list of top-level struct type     *)
(* declarations, each field declaration with its names, its type          *)
(* expression and the set of +gob: directives of its comment.             *)
(***************************************************************************)
EXTENDS Integers, Sequences, FiniteSets, TLC

VARIABLES
    src,        \* the input file: a parse tree, or Unreadable / Malformed
    config,     \* the *Config handed to generateCode
    out,        \* the output file <input>_gob.go: NoFile or its content
    mtime,      \* number of modifications of the output file so far
    pc,         \* position inside generateCodeForFile
    err,        \* the error generateCodeForFile returned (NoError: nil)
    io,         \* how the last file-system or formatter call ended
    result,     \* bld.String(): the generated, unformatted text
    processed,  \* what imports.Process returned
    runs,       \* completed calls of generateCode
    startOut,   \* the output file when the current call started
    startMtime, \* its modification count when the current call started
    runKey,     \* <<source, config>> the current call read
    prevKey,    \* <<source, config>> of the preceding call, when it succeeded
    batch,      \* one call of generateCode on a directory of input files
    tf          \* one call of TypeFormatter.Format: resolver, expression, text

vars == <<src, config, out, mtime, pc, err, io, result, processed, runs,
          startOut, startMtime, runKey, prevKey, batch, tf>>

\* Bounds of the model.
MaxFields == 3
MaxRuns == 2
MaxFiles == 3
MaxDecls == 2
MaxTuple == 2

None == "none"

\* the output file does not exist
NoFile == [kind |-> "nofile"]

\* an input file that os.ReadFile cannot read
Unreadable == [kind |-> "unreadable"]

\* an input file that parser.ParseFile rejects
Malformed == [kind |-> "malformed"]

----------------------------------------------------------------------------
(* Strings as sequences of ASCII codes.                                    *)

\* unicode.IsUpper on an ASCII letter
IsUpper(c) == c \in 65..90

ToUpperC(c) == IF c \in 97..122 THEN c - 32 ELSE c

ToLowerC(c) == IF c \in 65..90 THEN c + 32 ELSE c

\* strings.ToLower
ToLower(s) == [i \in 1..Len(s) |-> ToLowerC(s[i])]

\* strings.ToUpper
ToUpper(s) == [i \in 1..Len(s) |-> ToUpperC(s[i])]

\* Go's < on strings: bytewise lexicographic order
StrLess(a, b) ==
    \E i \in 1..(Len(a) + 1) :
        /\ \A j \in 1..(i - 1) : j <= Len(b) /\ a[j] = b[j]
        /\ \/ i = Len(a) + 1 /\ Len(b) >= i
           \/ i <= Len(a) /\ i <= Len(b) /\ a[i] < b[i]

\* "GobFinalizer"
GobFinalizerName == <<71, 111, 98, 70, 105, 110, 97, 108, 105, 122, 101, 114>>

----------------------------------------------------------------------------
(* Directives (the missing StructParser: modelled from the specification *)
(* and from the patterns of the constants file).                          *)

\* GobFlagOptional `\b+gob:_\b`
fieldOptional(field) == "_" \in field.doc

\* GobFlagGetter `\b+gob:getter\b`
fieldGetter(field) == "getter" \in field.doc

\* GobFlagAcronym `\b+gob:acronym\b`
fieldAcronym(field) == "acronym" \in field.doc

\* StructFlags of a comment: Constructor, constructor, _ or nothing
constructorFlags(doc) ==
    IF "Constructor" \in doc
    THEN [ProcessStruct |-> TRUE, Visibility |-> "Exported"]
    ELSE IF "constructor" \in doc
    THEN [ProcessStruct |-> TRUE, Visibility |-> "PackageLevel"]
    ELSE IF "_" \in doc
    THEN [ProcessStruct |-> TRUE, Visibility |-> "NoVisibility"]
    ELSE [ProcessStruct |-> FALSE, Visibility |-> "NoVisibility"]

\* the flags of an inner struct are read from the comment of its field
constructorFlagsFromField(field) == constructorFlags(field.doc)

\* acronym fields fully upper-cased, others with the first letter capitalised
exportName(name, acronym) ==
    IF acronym THEN ToUpper(name)
    ELSE <<ToUpperC(Head(name))>> \o Tail(name)

----------------------------------------------------------------------------
(* Type expressions: [k |-> "ident", name], [k |-> "star", x],            *)
(* [k |-> "sel", name], [k |-> "index", x], [k |-> "struct", st].         *)

RECURSIVE deriveEmbeddedFieldName(_)
deriveEmbeddedFieldName(expr) ==
    CASE expr.k = "ident" -> expr.name
      [] expr.k = "star" -> deriveEmbeddedFieldName(expr.x)
      [] expr.k = "sel" -> expr.name
      [] OTHER -> <<>>

\* field.Type is struct { ... } or *struct { ... }
isInnerStructType(typ) ==
    \/ typ.k = "struct"
    \/ typ.k = "star" /\ typ.x.k = "struct"

innerStructType(typ) == IF typ.k = "struct" THEN typ.st ELSE typ.x.st

----------------------------------------------------------------------------
(* Discovery of struct declarations.  A StructInfo is                     *)
(* [Name, StructType, TopLevel, Field]; TopLevel is TypeSpec # nil.       *)

NoField == "nofield"

RECURSIVE findInnerStructs(_, _)
RECURSIVE innerStructsOfNames(_, _, _)
RECURSIVE innerStructsOfFields(_, _, _)

\* the loop over field.Names of one field holding an anonymous struct
innerStructsOfNames(field, parentName, j) ==
    IF j > Len(field.names) THEN <<>>
    ELSE LET fullName == parentName \o field.names[j]
             structType == innerStructType(field.typ)
         IN  <<[Name |-> fullName, StructType |-> structType,
                TopLevel |-> FALSE, Field |-> field]>>
             \o findInnerStructs(structType, fullName)
             \o innerStructsOfNames(field, parentName, j + 1)

\* the loop over st.Fields.List
innerStructsOfFields(st, parentName, i) ==
    IF i > Len(st.fields) THEN <<>>
    ELSE (IF isInnerStructType(st.fields[i].typ)
          THEN innerStructsOfNames(st.fields[i], parentName, 1)
          ELSE <<>>)
         \o innerStructsOfFields(st, parentName, i + 1)

\* the inner structs listed from the last to the first:
\* DiscoveryIsPreOrder tells it from findInnerStructs
findInnerStructsLastFirst(st, parentName) ==
    LET found == innerStructsOfFields(st, parentName, 1) IN
    [k \in DOMAIN found |-> found[Len(found) + 1 - k]]

findInnerStructs(st, parentName) == innerStructsOfFields(st, parentName, 1)

RECURSIVE structsOfDecls(_, _)
structsOfDecls(decls, i) ==
    IF i > Len(decls) THEN <<>>
    ELSE <<[Name |-> decls[i].name, StructType |-> decls[i].st,
            TopLevel |-> TRUE, Field |-> NoField]>>
         \o findInnerStructs(decls[i].st, decls[i].name)
         \o structsOfDecls(decls, i + 1)

\* every TypeSpec of struct type, each followed by its inner structs
findAllStructs(file) == structsOfDecls(file.decls, 1)

----------------------------------------------------------------------------
(* generateCodeForFile: which structs are processed, and with what flags. *)
(* config.GenerateFor = "annotated" stands for the nil pointer that       *)
(* parseCommandLineArgs stores for -generate-for=annotated.               *)

\* an inner struct gets a type alias when its field is annotated, or under
\* -generate-for=exported when the first name of its field is exported
shouldGenerateType(info, cfg) ==
    \/ constructorFlagsFromField(info.Field).ProcessStruct
    \/ /\ cfg.GenerateFor = "exported"
       /\ Len(info.Field.names) > 0
       /\ IsUpper(info.Field.names[1][1])

RECURSIVE aliasDefinitions(_, _, _)
aliasDefinitions(allStructs, cfg, i) ==
    IF i > Len(allStructs) THEN <<>>
    ELSE (IF ~allStructs[i].TopLevel /\ shouldGenerateType(allStructs[i], cfg)
          THEN <<[k |-> "alias", name |-> allStructs[i].Name]>>
          ELSE <<>>)
         \o aliasDefinitions(allStructs, cfg, i + 1)

declaredFlags(info) ==
    IF info.TopLevel THEN constructorFlags(info.StructType.doc)
    ELSE constructorFlagsFromField(info.Field)

\* the name whose first letter decides under -generate-for=exported
nameToCheck(info) ==
    IF info.TopLevel THEN info.Name
    ELSE IF Len(info.Field.names) > 0 THEN info.Field.names[1] ELSE <<>>

fallbackVisibility(cfg) ==
    CASE cfg.ConstructorVisibility = "exported" -> "Exported"
      [] cfg.ConstructorVisibility = "package" -> "PackageLevel"
      [] OTHER -> "NoVisibility"

\* [skip, Visibility]: skip is the `continue` of the struct loop
structDecision(info, cfg) ==
    LET flags == declaredFlags(info) IN
    IF flags.ProcessStruct
    THEN [skip |-> FALSE, Visibility |-> flags.Visibility]
    ELSE IF cfg.GenerateFor = "annotated"
    THEN [skip |-> TRUE, Visibility |-> flags.Visibility]
    ELSE IF /\ cfg.GenerateFor = "exported"
            /\ \/ nameToCheck(info) = <<>>
               \/ ~IsUpper(nameToCheck(info)[1])
    THEN [skip |-> TRUE, Visibility |-> flags.Visibility]
    ELSE [skip |-> FALSE, Visibility |-> fallbackVisibility(cfg)]

----------------------------------------------------------------------------
(* The fields of one struct: validation, builder fields, getters.         *)
(* acc is [err, structFields, getters]; err # None ends the run.          *)

NoError == [kind |-> None]

validationError(fieldName, structName) ==
    [kind |-> "validation", field |-> fieldName, struct |-> structName]

newStructField(info, vis, name, field) ==
    [StructName |-> info.Name, FieldName |-> name,
     Acronym |-> fieldAcronym(field), Visibility |-> vis]

\* StructField.GenerateGetter: func (v *S) Name() T
GenerateGetter(sf) ==
    [k |-> "getter", recv |-> sf.StructName,
     name |-> exportName(sf.FieldName, sf.Acronym), field |-> sf.FieldName]

\* what both branches do with a field name once it passed validation
acceptFieldAnyRecord(acc, info, vis, name, field) ==
    LET sf == newStructField(info, vis, name, field) IN
    [err |-> acc.err,
     structFields |-> IF vis # "NoVisibility" /\ ~fieldOptional(field)
                      THEN Append(acc.structFields, sf)
                      ELSE acc.structFields,
     getters |-> IF fieldGetter(field)
                 THEN Append(acc.getters, GenerateGetter(sf))
                 ELSE acc.getters]
acceptField(acc, info, vis, name, field) ==
    LET sf == newStructField(info, vis, name, field) IN
    [err |-> acc.err,
     structFields |-> IF vis # "NoVisibility" /\ ~fieldOptional(field)
                      THEN Append(acc.structFields, sf)
                      ELSE acc.structFields,
     getters |-> IF fieldGetter(field) /\ info.TopLevel
                 THEN Append(acc.getters, GenerateGetter(sf))
                 ELSE acc.getters]

\* len(field.Names) == 0: the name is derived from the type
embeddedField(acc, info, vis, field) ==
    LET embeddedName == deriveEmbeddedFieldName(field.typ) IN
    IF embeddedName = <<>> THEN acc
    ELSE IF fieldGetter(field) /\ IsUpper(embeddedName[1])
    THEN [acc EXCEPT !.err = validationError(embeddedName, info.Name)]
    ELSE acceptField(acc, info, vis, embeddedName, field)

RECURSIVE namedField(_, _, _, _, _, _)
namedField(acc, info, vis, cfg, field, j) ==
    IF j > Len(field.names) \/ acc.err # NoError THEN acc
    ELSE LET name == field.names[j] IN
         IF /\ isInnerStructType(field.typ)
            /\ cfg.GenerateFor = "exported"
            /\ ~IsUpper(name[1])
         THEN namedField(acc, info, vis, cfg, field, j + 1)
         ELSE IF fieldGetter(field) /\ IsUpper(name[1])
         THEN [acc EXCEPT !.err = validationError(name, info.Name)]
         ELSE namedField(acceptField(acc, info, vis, name, field),
                         info, vis, cfg, field, j + 1)

RECURSIVE collectFields(_, _, _, _, _)
collectFields(acc, info, vis, cfg, i) ==
    IF i > Len(info.StructType.fields) \/ acc.err # NoError THEN acc
    ELSE LET field == info.StructType.fields[i] IN
         collectFields(IF Len(field.names) = 0
                       THEN embeddedField(acc, info, vis, field)
                       ELSE namedField(acc, info, vis, cfg, field, 1),
                       info, vis, cfg, i + 1)

----------------------------------------------------------------------------
(* Ordering of the builder fields.                                         *)

\* the comparison function handed to sort.SliceStable
sortLess(fi, fj) ==
    StrLess(ToLower(exportName(fi.FieldName, fi.Acronym)),
            ToLower(exportName(fj.FieldName, fj.Acronym)))

RECURSIVE insertStable(_, _)
insertStable(x, sorted) ==
    IF sorted = <<>> THEN <<x>>
    ELSE IF sortLess(x, Head(sorted)) THEN <<x>> \o sorted
    ELSE <<Head(sorted)>> \o insertStable(x, Tail(sorted))

RECURSIVE sortSliceStable(_)
sortSliceStable(s) ==
    IF s = <<>> THEN <<>>
    ELSE insertStable(s[Len(s)], sortSliceStable(SubSeq(s, 1, Len(s) - 1)))

orderFields(structFields, cfg) ==
    IF cfg.Sort = "abc" THEN sortSliceStable(structFields) ELSE structFields

----------------------------------------------------------------------------
(* Emission of the builder chain (StructField.GenerateSourceCodeForStruct- *)
(* Field is not part of the sources at hand: its output is modelled from   *)
(* the specification and from the strings the integration tests expect).   *)
(* A declaration of the generated file is one of                           *)
(*   [k |-> "alias", name]            type name = struct { ... }           *)
(*   [k |-> "getter", recv, name, field]                                   *)
(*   [k |-> "ctor", struct, vis, name, ret]  func name() ret               *)
(*   [k |-> "type", struct, name]     type name struct { root *S }         *)
(*   [k |-> "setter", struct, recv, name, field, ret]                      *)
(*                        func (b recv) name(arg T) ret { b.root.field = arg } *)
(*   [k |-> "build", recv, name, ret] func (b recv) name() *ret            *)

\* "_Builder_"
BuilderPrefix == <<95, 66, 117, 105, 108, 100, 101, 114, 95>>

stepTypeName(sf) ==
    sf.StructName \o BuilderPrefix \o exportName(sf.FieldName, sf.Acronym)

\* the terminal type named <Record>_Builder_Finalizer:
\* GeneratedNamesFollowConvention tells it from finalizerTypeName
finalizerTypeNamePlain(structName) ==
    structName \o BuilderPrefix \o SubSeq(GobFinalizerName, 4, 12)

finalizerTypeName(structName) == structName \o BuilderPrefix \o GobFinalizerName

\* "Build"
BuildMethodName == <<66, 117, 105, 108, 100>>

\* "New", "new", "Builder"
NewPrefix == <<78, 101, 119>>

LowerNewPrefix == <<110, 101, 119>>

BuilderSuffix == <<66, 117, 105, 108, 100, 101, 114>>

\* the name of the entry point, as the integration tests expect it:
\* NewPersonBuilder, newInternalBuilder (package level), and
\* newUnexportedStructBuilder for an unexported struct under -constructor=exported
constructorName(sf) ==
    (IF sf.Visibility = "Exported" /\ IsUpper(sf.StructName[1])
     THEN NewPrefix ELSE LowerNewPrefix)
    \o exportName(sf.StructName, FALSE) \o BuilderSuffix

setterOf(sf, ret) ==
    [k |-> "setter", struct |-> sf.StructName, recv |-> stepTypeName(sf),
     name |-> exportName(sf.FieldName, sf.Acronym),
     field |-> sf.FieldName, ret |-> ret]

\* prev is <<>> for nil, <<p>> for the preceding field
GenerateSourceCodeForStructField(sf, prev, isLast) ==
    (IF prev = <<>>
     THEN <<[k |-> "ctor", struct |-> sf.StructName, vis |-> sf.Visibility,
             name |-> constructorName(sf), ret |-> stepTypeName(sf)]>>
     ELSE <<setterOf(prev[1], stepTypeName(sf))>>)
    \o <<[k |-> "type", struct |-> sf.StructName, name |-> stepTypeName(sf)]>>
    \o (IF isLast
        THEN <<setterOf(sf, finalizerTypeName(sf.StructName)),
               [k |-> "type", struct |-> sf.StructName,
                name |-> finalizerTypeName(sf.StructName)],
               [k |-> "build", recv |-> finalizerTypeName(sf.StructName),
                name |-> BuildMethodName,
                ret |-> sf.StructName]>>
        ELSE <<>>)

\* the loop `for i, field := range structFields`
RECURSIVE emitBuilder(_, _)
emitBuilder(structFields, i) ==
    IF i > Len(structFields) THEN <<>>
    ELSE GenerateSourceCodeForStructField(
             structFields[i],
             IF i = 1 THEN <<>> ELSE <<structFields[i - 1]>>,
             i = Len(structFields))
         \o emitBuilder(structFields, i + 1)

\* one iteration of the loop over allStructs: [err, decls]
generateStruct(info, cfg) ==
    LET d == structDecision(info, cfg) IN
    IF d.skip THEN [err |-> NoError, decls |-> <<>>]
    ELSE LET acc == collectFields([err |-> NoError, structFields |-> <<>>,
                                   getters |-> <<>>],
                                  info, d.Visibility, cfg, 1)
             ordered == orderFields(acc.structFields, cfg)
         IN  IF acc.err # NoError
             THEN [err |-> acc.err, decls |-> <<>>]
             ELSE [err |-> NoError,
                   decls |-> acc.getters \o emitBuilder(ordered, 1)]

RECURSIVE generateStructs(_, _, _)
generateStructs(allStructs, cfg, i) ==
    IF i > Len(allStructs) THEN [err |-> NoError, decls |-> <<>>]
    ELSE LET one == generateStruct(allStructs[i], cfg) IN
         IF one.err # NoError THEN [err |-> one.err, decls |-> <<>>]
         ELSE LET rest == generateStructs(allStructs, cfg, i + 1) IN
              IF rest.err # NoError THEN rest
              ELSE [err |-> NoError, decls |-> one.decls \o rest.decls]

\* GeneratePackage(astFile): the lines that precede the declarations; it
\* is handed the parse tree only, neither the source bytes nor the config
GeneratePackage(file) == <<[k |-> "comment"], [k |-> "package"]>>

\* bld.String() at the end of generateCodeForFile, or the error returned
\* from inside the loops
Render(file, cfg) ==
    LET allStructs == findAllStructs(file)
        body == generateStructs(allStructs, cfg, 1)
    IN  IF body.err # NoError THEN [err |-> body.err, text |-> NoFile]
        ELSE [err |-> NoError,
              text |-> [kind |-> "file", head |-> GeneratePackage(file),
                        decls |-> aliasDefinitions(allStructs, cfg, 1)
                                  \o body.decls,
                        formatted |-> FALSE]]

----------------------------------------------------------------------------
(* Files, the formatter and the signature header.                          *)
(* A generated file is [kind |-> "file", head, decls, formatted]: head is  *)
(* the sequence of lines up to the declarations, each [k |-> "sig", v],    *)
(* [k |-> "package"] or [k |-> "comment"].                                 *)

Version == "0.18.0"

NoSignature == [k |-> "empty"]

\* a fingerprint that ignores the field-order mode: SignatureSensitivity
\* tells it from computeSignature
computeSignatureNoSort(source, cfg) ==
    [k |-> "sig",
     v |-> <<Version, source, cfg.GenerateFor, cfg.ConstructorVisibility>>]

\* the fingerprint of the specification, section 4.6: a function of the
\* generator version, the source bytes and the three configuration modes
computeSignature(source, cfg) ==
    [k |-> "sig",
     v |-> <<Version, source, cfg.GenerateFor, cfg.ConstructorVisibility,
             cfg.Sort>>]

\* the first line with the prefix "// gobetter:signature=", looked for up
\* to the line that starts the package clause
RECURSIVE extractSignature(_)
extractSignature(lines) ==
    IF lines = <<>> THEN NoSignature
    ELSE IF Head(lines).k = "sig" THEN Head(lines)
    ELSE IF Head(lines).k = "package" THEN NoSignature
    ELSE extractSignature(Tail(lines))

\* a write that never creates the file (O_CREATE left out):
\* NotCachedRunsThrough tells it from WriteFile
WriteFileExisting(file, data, outcome) ==
    IF file = NoFile \/ outcome = "denied" THEN file
    ELSE IF outcome = "ok" THEN data
    ELSE [kind |-> "file", head |-> <<>>, decls |-> <<>>, formatted |-> FALSE]

\* os.WriteFile(name, data, 0644): O_WRONLY|O_CREATE|O_TRUNC, then Write.
\* outcome "denied": the open fails; "partial": the write fails after the
\* file was truncated
WriteFile(file, data, outcome) ==
    CASE outcome = "ok" -> data
      [] outcome = "denied" -> file
      [] OTHER -> [kind |-> "file", head |-> <<>>, decls |-> <<>>,
                   formatted |-> FALSE]

\* imports.Process on success: the same declarations, gofmt-ed
Process(text) == [text EXCEPT !.formatted = TRUE]

NoKey == <<>>

\* generateCode has not been called on a directory
NoBatch == [pcB |-> "none"]

\* TypeFormatter.Format has not been called
NoFormat == [pcF |-> "none"]

----------------------------------------------------------------------------
(* Inputs.                                                                 *)

Configs ==
    [GenerateFor : {"annotated", "all", "exported"},
     ConstructorVisibility : {"exported", "package", "none"},
     Sort : {"seq", "abc"}]

IntType == [k |-> "ident", name |-> <<105, 110, 116>>]

plainField(name, doc) == [names |-> <<name>>, typ |-> IntType, doc |-> doc]

\* struct { q int }
Anonymous == [k |-> "struct", st |-> [doc |-> {}, fields |-> <<plainField(<<113>>, {})>>]]

\* fields whose display names exercise the ordering:
\* a, B, z, b, ab (acronym), Ab, y (optional), and `d, c int`
OrderMenu ==
    {plainField(<<97>>, {}), plainField(<<66>>, {}), plainField(<<122>>, {}),
     plainField(<<98>>, {}), plainField(<<97, 98>>, {"acronym"}),
     plainField(<<65, 98>>, {}), plainField(<<121>>, {"_"}),
     [names |-> <<<<100>>, <<99>>>>, typ |-> IntType, doc |-> {}]}

\* one field of every kind the field loop distinguishes:
\* a int; y int (optional); o int (optional, getter); g int (getter);
\* G int (getter); n struct{...}; P *struct{...}; m struct{...} (Constructor);
\* embedded *pkg.E; embedded L[int]; k struct{...} (optional, getter);
\* s, T struct{...}; embedded *pkg.F (getter)
KindMenu ==
    {plainField(<<97>>, {}), plainField(<<121>>, {"_"}),
     plainField(<<111>>, {"_", "getter"}), plainField(<<103>>, {"getter"}),
     plainField(<<71>>, {"getter"}),
     [names |-> <<<<110>>>>, typ |-> Anonymous, doc |-> {}],
     [names |-> <<<<80>>>>, typ |-> [k |-> "star", x |-> Anonymous], doc |-> {}],
     [names |-> <<<<109>>>>, typ |-> Anonymous, doc |-> {"Constructor"}],
     [names |-> <<>>, typ |-> [k |-> "star", x |-> [k |-> "sel", name |-> <<69>>]],
      doc |-> {}],
     [names |-> <<>>, typ |-> [k |-> "index", x |-> [k |-> "ident", name |-> <<76>>]],
      doc |-> {}],
     [names |-> <<<<107>>>>, typ |-> Anonymous, doc |-> {"_", "getter"}],
     [names |-> <<<<115>>, <<84>>>>, typ |-> Anonymous, doc |-> {}],
     [names |-> <<>>, typ |-> [k |-> "star", x |-> [k |-> "sel", name |-> <<70>>]],
      doc |-> {"getter"}]}

\* sequences of at most n distinct elements of M
SeqsNoRep(M, n) ==
    UNION {{f \in [1..k -> M] : \A i, j \in 1..k : i # j => f[i] # f[j]} :
           k \in 0..n}

oneStruct(name, doc, fields) ==
    [kind |-> "source",
     decls |-> <<[name |-> name, st |-> [doc |-> doc, fields |-> fields]]>>]

\* type W struct { ... } //+gob:Constructor, fields from OrderMenu
OrderSources ==
    {oneStruct(<<87>>, {"Constructor"}, fs) : fs \in SeqsNoRep(OrderMenu, MaxFields)}

OrderConfigs ==
    {c \in Configs : /\ c.GenerateFor \in {"annotated", "exported"}
                     /\ c.ConstructorVisibility = "exported"}

\* type W struct { ... } with each directive, and an undirected type w
KindSources ==
    {oneStruct(<<87>>, doc, fs) :
        doc \in {{}, {"Constructor"}, {"constructor"}, {"_"}},
        fs \in {<<>>} \cup {<<x>> : x \in KindMenu}
               \cup {p \in KindMenu \X KindMenu : p[1] # p[2]}}
    \cup {oneStruct(<<119>>, {}, <<x>>) : x \in KindMenu}

innerField(name, typ, doc) == [names |-> <<name>>, typ |-> typ, doc |-> doc]

\* type W struct { BX struct{ q int }; B struct { X struct{ q int } } }
\* with or without //+gob:Constructor on each of the three fields, the
\* two fields of W in either order: the records of BX and of B.X are both
\* named WBX
NestSources ==
    UNION {
        LET BX == innerField(<<66, 88>>, Anonymous, d[1])
            X == innerField(<<88>>, Anonymous, d[2])
            B == innerField(<<66>>,
                            [k |-> "struct", st |-> [doc |-> {}, fields |-> <<X>>]],
                            d[3])
        IN  {oneStruct(<<87>>, {"Constructor"}, <<BX, B>>),
             oneStruct(<<87>>, {"Constructor"}, <<B, BX>>)} :
        d \in [1..3 -> {{}, {"Constructor"}}]}

\* struct { X struct{ q int }; y *struct{ q int } }
Deep ==
    [k |-> "struct",
     st |-> [doc |-> {},
             fields |-> <<innerField(<<88>>, Anonymous, {}),
                          innerField(<<121>>, [k |-> "star", x |-> Anonymous], {})>>]]

\* n struct{...}; P *struct{ X ...; y ... }; s, T struct{ X ...; y ... };
\* D **struct{...}
TreeMenu ==
    {innerField(<<110>>, Anonymous, {}),
     innerField(<<80>>, [k |-> "star", x |-> Deep], {}),
     [names |-> <<<<115>>, <<84>>>>, typ |-> Deep, doc |-> {}],
     innerField(<<68>>, [k |-> "star", x |-> [k |-> "star", x |-> Anonymous]], {})}

\* files of one to MaxDecls struct types W, V, U, ..., each with at most
\* two fields of TreeMenu
TreeSources ==
    {[kind |-> "source",
      decls |-> [t \in DOMAIN fss |->
                    [name |-> <<88 - t>>,
                     st |-> [doc |-> {}, fields |-> fss[t]]]]] :
        fss \in UNION {[1..m -> SeqsNoRep(TreeMenu, 2)] : m \in 1..MaxDecls}}

----------------------------------------------------------------------------
(* generateCodeForFile, one action per stretch between file-system calls.  *)

finish(e) ==
    /\ err' = e
    /\ pc' = "done"
    /\ runs' = runs + 1

\* os.ReadFile, parser.ParseFile and the generation loops (lines 632-840)
Generate ==
    /\ pc = "idle"
    /\ runKey' = <<src, config>>
    /\ IF src = Unreadable
       THEN finish([kind |-> "read"]) /\ UNCHANGED result
       ELSE IF src = Malformed
       THEN finish([kind |-> "parse"]) /\ UNCHANGED result
       ELSE LET r == Render(src, config) IN
            IF r.err # NoError
            THEN finish(r.err) /\ UNCHANGED result
            ELSE /\ result' = r.text
                 /\ pc' = "write"
                 /\ UNCHANGED <<err, runs>>
    /\ UNCHANGED <<src, config, out, mtime, io, processed, startOut,
                   startMtime, prevKey, batch, tf>>

\* os.WriteFile(outputFile, result) (lines 841-843)
WriteRaw ==
    /\ pc = "write"
    /\ \E outcome \in {"ok", "denied", "partial"} :
        /\ io' = outcome
        /\ out' = WriteFile(out, result, outcome)
        /\ mtime' = IF outcome = "denied" THEN mtime ELSE mtime + 1
        /\ IF outcome = "ok"
           THEN pc' = "format" /\ UNCHANGED <<err, runs>>
           ELSE finish([kind |-> "write"])
    /\ UNCHANGED <<src, config, result, processed, startOut, startMtime,
                   runKey, prevKey, batch, tf>>

\* imports.Process(outputFile, result) (lines 846-853)
Format ==
    /\ pc = "format"
    /\ \E outcome \in {"ok", "failed"} :
        /\ io' = outcome
        /\ IF outcome = "ok"
           THEN /\ processed' = Process(result)
                /\ pc' = "writeProcessed"
                /\ UNCHANGED <<err, runs>>
           ELSE finish([kind |-> "format"]) /\ UNCHANGED processed
    /\ UNCHANGED <<src, config, out, mtime, result, startOut, startMtime,
                   runKey, prevKey, batch, tf>>

\* os.WriteFile(outputFile, processed); return nil (lines 854-858)
WriteProcessed ==
    /\ pc = "writeProcessed"
    /\ \E outcome \in {"ok", "denied", "partial"} :
        /\ io' = outcome
        /\ out' = WriteFile(out, processed, outcome)
        /\ mtime' = IF outcome = "denied" THEN mtime ELSE mtime + 1
        /\ finish(IF outcome = "ok" THEN NoError ELSE [kind |-> "write"])
    /\ UNCHANGED <<src, config, result, processed, startOut, startMtime,
                   runKey, prevKey, batch, tf>>

----------------------------------------------------------------------------
(* Successive calls of generateCode on one input file, as the tests of the *)
(* change-detection cache drive them.                                      *)

\* type W struct { a int; B int } //+gob:Constructor   and
\* type W struct { a int } //+gob:Constructor
ProtoSources ==
    {oneStruct(<<87>>, {"Constructor"},
               <<plainField(<<97>>, {}), plainField(<<66>>, {})>>),
     oneStruct(<<87>>, {"Constructor"}, <<plainField(<<97>>, {})>>),
     Malformed, Unreadable}

existingFile(head) ==
    [kind |-> "file", head |-> head, decls |-> <<>>, formatted |-> TRUE]

\* a signature written by another version of the generator
StaleSignature == [k |-> "sig", v |-> <<"0.17.0">>]

\* what may be at the output path before the first call: nothing; a file
\* whose header carries the signature of (s, c); one with an older
\* signature; one without a marker; one whose marker follows the package
\* clause; one that is no Go file at all
PreOutputs(s, c) ==
    {NoFile,
     existingFile(<<computeSignature(s, c), [k |-> "package"]>>),
     existingFile(<<StaleSignature, [k |-> "package"]>>),
     existingFile(<<[k |-> "comment"], [k |-> "package"]>>),
     existingFile(<<[k |-> "package"], computeSignature(s, c)>>),
     existingFile(<<[k |-> "comment"]>>)}

\* the next call of generateCode
NextRun ==
    /\ pc = "done"
    /\ runs < MaxRuns
    /\ pc' = "idle"
    /\ startOut' = out
    /\ startMtime' = mtime
    /\ prevKey' = IF err = NoError THEN runKey ELSE NoKey
    /\ err' = NoError
    /\ io' = "ok"
    /\ result' = NoFile
    /\ processed' = NoFile
    /\ UNCHANGED <<src, config, out, mtime, runs, runKey, batch, tf>>

\* the caller changes one mode of the configuration between two calls
ChangeConfig ==
    /\ pc = "idle"
    /\ runs > 0
    /\ \E c \in Configs :
        /\ c # config
        /\ \/ c.GenerateFor = config.GenerateFor /\ c.Sort = config.Sort
           \/ /\ c.GenerateFor = config.GenerateFor
              /\ c.ConstructorVisibility = config.ConstructorVisibility
           \/ /\ c.ConstructorVisibility = config.ConstructorVisibility
              /\ c.Sort = config.Sort
        /\ config' = c
    /\ UNCHANGED <<src, out, mtime, pc, err, io, result, processed, runs,
                   startOut, startMtime, runKey, prevKey, batch, tf>>

\* the input file is edited between two calls
EditSource ==
    /\ pc = "idle"
    /\ runs > 0
    /\ \E s \in ProtoSources \ {src} : src' = s
    /\ UNCHANGED <<config, out, mtime, pc, err, io, result, processed, runs,
                   startOut, startMtime, runKey, prevKey, batch, tf>>

fresh ==
    /\ mtime = 0
    /\ pc = "idle"
    /\ err = NoError
    /\ io = "ok"
    /\ result = NoFile
    /\ processed = NoFile
    /\ runs = 0
    /\ startOut = out
    /\ startMtime = 0
    /\ runKey = NoKey
    /\ prevKey = NoKey
    /\ batch = NoBatch
    /\ tf = NoFormat

Init ==
    /\ src \in ProtoSources
    /\ config \in Configs
    /\ out \in PreOutputs(src, config)
    /\ fresh

Next ==
    \/ Generate
    \/ WriteRaw
    \/ Format
    \/ WriteProcessed
    \/ NextRun
    \/ ChangeConfig
    \/ EditSource

Spec == Init /\ [][Next]_vars

\* one call of generateCode on each input of the two families
\* struct { g int //+gob:getter; q int }
GetterInner ==
    [k |-> "struct",
     st |-> [doc |-> {},
             fields |-> <<plainField(<<103>>, {"getter"}), plainField(<<113>>, {})>>]]

\* n struct{...}; N struct{...} (Constructor); P *struct{...}, each with a
\* getter field inside; h int (getter); a int
GetterNestMenu ==
    {innerField(<<110>>, GetterInner, {}),
     innerField(<<78>>, GetterInner, {"Constructor"}),
     innerField(<<80>>, [k |-> "star", x |-> GetterInner], {}),
     plainField(<<104>>, {"getter"}), plainField(<<97>>, {})}

\* type W struct { ... } with and without //+gob:Constructor
GetterNestSources ==
    {oneStruct(<<87>>, doc, fs) :
        doc \in {{}, {"Constructor"}}, fs \in SeqsNoRep(GetterNestMenu, MaxDecls)}

\* dob (acronym), DOB, name, Name
DisplayMenu ==
    {plainField(<<100, 111, 98>>, {"acronym"}), plainField(<<68, 79, 66>>, {}),
     plainField(<<110, 97, 109, 101>>, {}), plainField(<<78, 97, 109, 101>>, {})}

\* type W struct { ... } //+gob:Constructor, fields from DisplayMenu
DisplaySources ==
    {oneStruct(<<87>>, {"Constructor"}, fs) : fs \in SeqsNoRep(DisplayMenu, MaxDecls)}

\* type W struct { BX struct{ q int } } next to type WBX struct { a int },
\* in either order, each of the two types and the field BX with or without
\* //+gob:Constructor: the record of BX is named WBX
ClashSources ==
    UNION {
        LET W == [name |-> <<87>>,
                  st |-> [doc |-> d[1],
                          fields |-> <<innerField(<<66, 88>>, Anonymous, d[2])>>]]
            WBX == [name |-> <<87, 66, 88>>,
                    st |-> [doc |-> d[3], fields |-> <<plainField(<<97>>, {})>>]]
        IN  {[kind |-> "source", decls |-> <<W, WBX>>],
             [kind |-> "source", decls |-> <<WBX, W>>]} :
        d \in [1..3 -> {{}, {"Constructor"}}]}

InitGen ==
    /\ \/ src \in OrderSources /\ config \in OrderConfigs
       \/ src \in ClashSources /\ config \in Configs
       \/ src \in DisplaySources /\ config \in OrderConfigs
       \/ src \in GetterNestSources /\ config \in Configs
       \/ src \in KindSources /\ config \in Configs
       \/ src \in NestSources /\ config \in Configs
       \/ /\ src \in TreeSources
          /\ config \in {c \in Configs : /\ c.GenerateFor = "all"
                                          /\ c.ConstructorVisibility = "exported"
                                          /\ c.Sort = "seq"}
    /\ out = NoFile
    /\ fresh

NextGen ==
    \/ Generate
    \/ WriteRaw
    \/ Format
    \/ WriteProcessed

SpecGen == InitGen /\ [][NextGen]_vars

----------------------------------------------------------------------------
(* Properties of the change-detection protocol (specification Spec).       *)

\* the current call has read its inputs
running == pc # "idle"

freshSignature == computeSignature(runKey[1], runKey[2])

\* no previous output, or no signature marker before the package clause
NotCached(file) ==
    \/ file = NoFile
    \/ extractSignature(file.head) = NoSignature

\* C1: a second call with the source bytes and the configuration
\* unchanged performs no write: the output file keeps the content and the
\* modification time the first call left.
SecondRunWritesNothing ==
    (pc = "done" /\ err = NoError /\ prevKey = runKey)
        => (out = startOut /\ mtime = startMtime)

\* two configurations or sources that differ in exactly one signature input
singleChange(s1, c1, s2, c2) ==
    \/ s1 # s2 /\ c1 = c2
    \/ /\ s1 = s2
       /\ c1 # c2
       /\ \/ c1.GenerateFor = c2.GenerateFor /\ c1.Sort = c2.Sort
          \/ /\ c1.GenerateFor = c2.GenerateFor
             /\ c1.ConstructorVisibility = c2.ConstructorVisibility
          \/ /\ c1.ConstructorVisibility = c2.ConstructorVisibility
             /\ c1.Sort = c2.Sort

MatchingSignatureSkips ==
    (/\ running
     /\ runKey[1] # Unreadable
     /\ startOut # NoFile
     /\ extractSignature(startOut.head) = freshSignature)
        => (result = NoFile /\ out = startOut /\ mtime = startMtime)

\* C5: when the signature of the existing output differs from the fresh one
\* but the newly rendered content equals the content of the existing file,
\* the output file is not written.
IdenticalContentNotWritten ==
    (/\ pc = "done"
     /\ err = NoError
     /\ startOut # NoFile
     /\ extractSignature(startOut.head) # freshSignature
     /\ processed = startOut)
        => mtime = startMtime

\* C6: without a previous output, or with a header that has no signature
\* marker before the package clause, the call generates and writes the
\* output; it fails only for what fails with any header: an unreadable or
\* malformed source, a field that breaks a rule, a file-system or formatter
\* call that the environment refuses.
NotCachedRunsThrough ==
    (pc = "done" /\ NotCached(startOut)) =>
        IF err = NoError
        THEN /\ processed = Process(Render(runKey[1], runKey[2]).text)
             /\ out = processed
             /\ mtime > startMtime
        ELSE \/ err.kind = "read" /\ runKey[1] = Unreadable
             \/ err.kind = "parse" /\ runKey[1] = Malformed
             \/ /\ err.kind = "validation"
                /\ Render(runKey[1], runKey[2]).err = err
             \/ err.kind \in {"write", "format"} /\ io # "ok"

\* C6, its case: a call completed where a file stood whose header has no
\* signature marker and is not the header this generator writes
GarbledHeaderOverwritten ==
    /\ pc = "done"
    /\ err = NoError
    /\ startOut # NoFile
    /\ extractSignature(startOut.head) = NoSignature
    /\ startOut.head # GeneratePackage(runKey[1])
    /\ out = processed

----------------------------------------------------------------------------
(* Properties of the generated builders (specification SpecGen).           *)

\* the text of this call has just been rendered (it stays the same until
\* the call ends)
rendered == pc = "write"

\* the records that get a builder: processed, with a constructor visibility
builderRecords ==
    {i \in DOMAIN findAllStructs(src) :
        LET d == structDecision(findAllStructs(src)[i], config) IN
        ~d.skip /\ d.Visibility # "NoVisibility"}

\* the name Go gives an embedded field: the name of its type
RECURSIVE embeddedName(_)
embeddedName(typ) ==
    CASE typ.k = "ident" -> typ.name
      [] typ.k = "sel" -> typ.name
      [] OTHER -> embeddedName(typ.x)

mandatoryOfField(field) ==
    IF fieldOptional(field) THEN <<>>
    ELSE IF field.names = <<>>
    THEN <<[name |-> embeddedName(field.typ), acronym |-> fieldAcronym(field)]>>
    ELSE [j \in 1..Len(field.names) |->
             [name |-> field.names[j], acronym |-> fieldAcronym(field)]]

\* the non-optional fields of a struct type, in declaration order
RECURSIVE mandatoryFields(_, _)
mandatoryFields(st, i) ==
    IF i > Len(st.fields) THEN <<>>
    ELSE mandatoryOfField(st.fields[i]) \o mandatoryFields(st, i + 1)

orderings(n) == {p \in [1..n -> 1..n] : \A i, j \in 1..n : i # j => p[i] # p[j]}

displayKey(f) == ToLower(exportName(f.name, f.acronym))

\* p lists the positions of m by display name, case-insensitively, equal
\* names in declaration order
alphabetical(m, p) ==
    \A i, j \in 1..Len(m) :
        i < j => /\ ~StrLess(displayKey(m[p[j]]), displayKey(m[p[i]]))
                 /\ displayKey(m[p[i]]) = displayKey(m[p[j]]) => p[i] < p[j]

\* the fields in the order the configuration asks for
generationOrder(m, cfg) ==
    IF cfg.Sort = "seq" THEN m
    ELSE LET p == CHOOSE q \in orderings(Len(m)) : alphabetical(m, q)
         IN  [i \in 1..Len(m) |-> m[p[i]]]

namesOf(m) == [i \in 1..Len(m) |-> m[i].name]

\* the fields the setters of the builder of struct S assign, in text order
stepFields(text, S) ==
    LET setters == SelectSeq(text.decls,
                             LAMBDA d : d.k = "setter" /\ d.struct = S)
    IN  [i \in 1..Len(setters) |-> setters[i].field]

\* the declarations of the text that are operations of step type T
opsOf(text, T) ==
    {j \in DOMAIN text.decls :
        text.decls[j].k \in {"setter", "build"} /\ text.decls[j].recv = T}

typeDeclsOf(text, T) ==
    {j \in DOMAIN text.decls :
        text.decls[j].k = "type" /\ text.decls[j].name = T}

ctorsOf(text, S) ==
    {j \in DOMAIN text.decls :
        text.decls[j].k = "ctor" /\ text.decls[j].struct = S}

\* from step type T on, the text declares one type per field of fs, each
\* with the one operation that assigns the field and returns the next
\* type, and at the end a type whose one operation is Build
RECURSIVE chainFrom(_, _, _, _)
chainFrom(text, S, T, fs) ==
    /\ Cardinality(typeDeclsOf(text, T)) = 1
    /\ \E j \in opsOf(text, T) :
          /\ opsOf(text, T) = {j}
          /\ IF fs = <<>>
             THEN text.decls[j].k = "build" /\ text.decls[j].ret = S
             ELSE /\ text.decls[j].k = "setter"
                  /\ text.decls[j].field = Head(fs).name
                  /\ chainFrom(text, S, text.decls[j].ret, Tail(fs))

linearBuilder(text, S, fs) ==
    \E j \in ctorsOf(text, S) :
        /\ ctorsOf(text, S) = {j}
        /\ chainFrom(text, S, text.decls[j].ret, fs)

\* C2: the builder of every processed record with mandatory fields
\* f1..fn in generation order is a linear state machine: the entry point
\* returns step(f1), step(fi) has the single operation that assigns fi and
\* returns step(fi+1) or the finalizer, whose only operation is Build.
BuilderIsLinearChain ==
    rendered =>
        \A i \in builderRecords :
            LET info == findAllStructs(src)[i]
                m == mandatoryFields(info.StructType, 1)
            IN  m # <<>> =>
                    linearBuilder(result, info.Name, generationOrder(m, config))

\* C7: a processed record without mandatory fields still gets a builder,
\* whose entry point returns the finalizer step.
EmptyRecordHasBuilder ==
    rendered =>
        \A i \in builderRecords :
            LET info == findAllStructs(src)[i] IN
            mandatoryFields(info.StructType, 1) = <<>> =>
                linearBuilder(result, info.Name, <<>>)

\* C8: in mode abc the builder steps of a record are its mandatory fields
\* sorted by exported display name compared case-insensitively, fields
\* with equal keys in declaration order.
AbcStepsAreSortedMandatoryFields ==
    (rendered /\ config.Sort = "abc") =>
        \A i \in builderRecords :
            LET info == findAllStructs(src)[i]
                m == mandatoryFields(info.StructType, 1)
            IN  stepFields(result, info.Name)
                    = namesOf(generationOrder(m, config))

\* C9: in mode seq the builder steps of a record are exactly its mandatory
\* fields in declaration order, the names of one declaration left to right.
SeqStepsAreDeclaredMandatoryFields ==
    (rendered /\ config.Sort = "seq") =>
        \A i \in builderRecords :
            LET info == findAllStructs(src)[i] IN
            stepFields(result, info.Name)
                = namesOf(mandatoryFields(info.StructType, 1))

\* C10: the builder steps of every processed record are exactly its
\* non-optional fields, each once, under every generate-for mode.
StepsAreExactlyMandatoryFields ==
    rendered =>
        \A i \in builderRecords :
            LET info == findAllStructs(src)[i]
                m == mandatoryFields(info.StructType, 1)
                steps == stepFields(result, info.Name)
            IN  /\ Len(steps) = Len(m)
                /\ \E p \in orderings(Len(m)) :
                       \A k \in 1..Len(m) : steps[k] = m[p[k]].name

----------------------------------------------------------------------------
(* Properties of the field loop and of the processing decision             *)
(* (specification SpecGen).                                                *)

records == findAllStructs(src)

\* the construction directive of a record, if any
hasDirective(info) == declaredFlags(info).ProcessStruct

\* the identifier that names a record: its declared name, or for an
\* anonymous record the name of the field it is the type of
recordIdentifier(info) ==
    IF info.TopLevel THEN info.Name
    ELSE CHOOSE n \in {info.Field.names[j] : j \in DOMAIN info.Field.names} :
            /\ Len(n) <= Len(info.Name)
            /\ SubSeq(info.Name, Len(info.Name) - Len(n) + 1, Len(info.Name)) = n

\* the fallback policy of the specification, section 4.5
shouldProcess(info, cfg) ==
    \/ hasDirective(info)
    \/ cfg.GenerateFor = "all"
    \/ cfg.GenerateFor = "exported" /\ IsUpper(recordIdentifier(info)[1])

\* the names a field declaration declares (an embedded field: its type's)
fieldNames(field) ==
    IF field.names = <<>> THEN {embeddedName(field.typ)}
    ELSE {field.names[j] : j \in DOMAIN field.names}

fieldsOf(info) == {info.StructType.fields[i] : i \in DOMAIN info.StructType.fields}

\* the accessor methods the text declares on struct S for field name n
gettersOf(text, S, n) ==
    {j \in DOMAIN text.decls :
        /\ text.decls[j].k = "getter"
        /\ text.decls[j].recv = S
        /\ text.decls[j].field = n}

stepSet(text, S) == {stepFields(text, S)[i] : i \in DOMAIN stepFields(text, S)}

\* C11: an optional field of a processed record is never a builder step
\* of that record, and when it is also flagged getter and the record is
\* top-level its accessor method is emitted all the same.
OptionalFieldHasNoStepButGetter ==
    rendered =>
        \A i \in DOMAIN records :
            shouldProcess(records[i], config) =>
                \A f \in fieldsOf(records[i]) :
                    fieldOptional(f) =>
                        \A n \in fieldNames(f) :
                            /\ n \notin stepSet(result, records[i].Name)
                            /\ (fieldGetter(f) /\ records[i].TopLevel)
                                  => gettersOf(result, records[i].Name, n) # {}

\* the upper-case names of a record that carry a getter directive
misplacedIn(info) ==
    {n \in UNION {fieldNames(f) : f \in {g \in fieldsOf(info) : fieldGetter(g)}} :
        IsUpper(n[1])}

\* <<field name, record name>> of every getter directive on an
\* upper-case name in a processed record
misplacedGetters ==
    UNION {{<<n, records[i].Name>> : n \in misplacedIn(records[i])} :
           i \in {j \in DOMAIN records : shouldProcess(records[j], config)}}

\* generation ended with the validation error of field n of record S
failedOn(n, S) == err.kind = "validation" /\ err.field = n /\ err.struct = S

\* C12: a getter directive on an upper-case declared or synthesized name
\* in a processed record makes generation fail with a validation error
\* naming the field and its record; a getter directive on a lower-case
\* field of a processed top-level record succeeds and yields exactly one
\* accessor method for that name.
GetterValidation ==
    /\ running =>
          /\ misplacedGetters # {}
                => \E p \in misplacedGetters : failedOn(p[1], p[2])
          /\ misplacedGetters = {} => err.kind # "validation"
    /\ rendered =>
          \A i \in DOMAIN records :
              (shouldProcess(records[i], config) /\ records[i].TopLevel) =>
                  \A f \in fieldsOf(records[i]) :
                      fieldGetter(f) =>
                          \A n \in fieldNames(f) :
                              Cardinality(gettersOf(result, records[i].Name, n)) = 1

\* C13: the validation error for a getter directive on an upper-case
\* field carries the source position (file, line and column) besides the
\* field name and the record name.
ValidationErrorHasPosition ==
    err.kind = "validation" =>
        {"field", "struct", "pos"} \subseteq DOMAIN err

----------------------------------------------------------------------------
(* Properties of the type aliases (specification SpecGen).                 *)

\* the alias rule of the specification, section 4.4
needsAlias(info, cfg) ==
    /\ ~info.TopLevel
    /\ \/ hasDirective(info)
       \/ cfg.GenerateFor = "exported" /\ IsUpper(recordIdentifier(info)[1])

\* the names of the aliases the text declares, in the order of the text
aliasNames(text) ==
    LET items == SelectSeq(text.decls, LAMBDA d : d.k = "alias") IN
    [i \in DOMAIN items |-> items[i].name]

\* base_N for N = 2 .. 9
numbered(base, N) == base \o <<95, 48 + N>>

\* the base name if it is free, otherwise base_N with the least free N >= 2
freeName(base, used) ==
    IF base \notin used THEN base
    ELSE LET N == CHOOSE k \in 2..9 :
                     /\ numbered(base, k) \notin used
                     /\ \A l \in 2..(k - 1) : numbered(base, l) \in used
         IN numbered(base, N)

\* the alias names assigned in discovery order to the records from the
\* i-th on, used being the names assigned so far
RECURSIVE assignedAliases(_, _, _, _)
assignedAliases(allStructs, cfg, i, used) ==
    IF i > Len(allStructs) THEN <<>>
    ELSE IF ~needsAlias(allStructs[i], cfg)
    THEN assignedAliases(allStructs, cfg, i + 1, used)
    ELSE LET n == freeName(allStructs[i].Name, used) IN
         <<n>> \o assignedAliases(allStructs, cfg, i + 1, used \cup {n})

\* C16: of the anonymous records that need an alias and share a base
\* name, the first discovered gets the base name and each later one gets
\* base_N with the least N >= 2 not yet used (WBX and WBX_2).
AliasCollisionNumbered ==
    rendered => aliasNames(result) = assignedAliases(records, config, 1, {})

\* C17: the alias names of one generation are pairwise distinct.
AliasNamesDistinct ==
    rendered =>
        \A i, j \in DOMAIN aliasNames(result) :
            i # j => aliasNames(result)[i] # aliasNames(result)[j]

----------------------------------------------------------------------------
(* Properties of the processing decision (specification SpecGen).          *)

\* the declarations of the text that belong to struct S: its accessor
\* methods, its entry point, its step types and their operations
declsFor(text, S) ==
    {j \in DOMAIN text.decls :
        \/ text.decls[j].k = "getter" /\ text.decls[j].recv = S
        \/ text.decls[j].k \in {"ctor", "type", "setter"}
              /\ text.decls[j].struct = S
        \/ text.decls[j].k = "build" /\ text.decls[j].ret = S}

\* no other discovered record has the name of the i-th
nameIsUnique(i) ==
    \A j \in DOMAIN records : j # i => records[j].Name # records[i].Name

\* C18: a record with a construction directive is processed in every
\* mode; one without is skipped entirely (no builder, no accessor) in
\* mode annotated, processed in mode all, and in mode exported processed
\* exactly when its identifier (for a nested record: the name of its
\* owning field) is upper-case.
FallbackDecision ==
    rendered =>
        \A i \in DOMAIN records :
            /\ shouldProcess(records[i], config)
                  <=> ~structDecision(records[i], config).skip
            /\ (~shouldProcess(records[i], config) /\ nameIsUnique(i))
                  => declsFor(result, records[i].Name) = {}

\* the i-th record has no construction directive and is processed
processedByFallback(i) ==
    /\ ~hasDirective(records[i])
    /\ shouldProcess(records[i], config)
    /\ ~structDecision(records[i], config).skip
    /\ nameIsUnique(i)

\* the names of the entry points the text declares for struct S
entryPoints(text, S) == {text.decls[j].name : j \in ctorsOf(text, S)}

\* the declarations of the builder of struct S
builderDecls(text, S) ==
    {j \in declsFor(text, S) : text.decls[j].k # "getter"}

\* C19: a record processed by fallback gets the entry point the global
\* constructor visibility asks for, whatever the case of its own name:
\* exported gives New<Record>Builder, package gives new<Record>Builder,
\* none gives no builder.
FallbackVisibilityIsGlobal ==
    rendered =>
        \A i \in DOMAIN records :
            processedByFallback(i) =>
                LET S == records[i].Name
                    base == exportName(S, FALSE) \o BuilderSuffix
                IN  CASE config.ConstructorVisibility = "exported" ->
                            entryPoints(result, S) = {NewPrefix \o base}
                      [] config.ConstructorVisibility = "package" ->
                            entryPoints(result, S) = {LowerNewPrefix \o base}
                      [] OTHER -> builderDecls(result, S) = {}

\* the anonymous records discovered under the name S
nestedNamed(S) ==
    {i \in DOMAIN records : ~records[i].TopLevel /\ records[i].Name = S}

\* C20: an alias is declared for a nested anonymous record exactly when
\* its owning field carries a construction directive, or the mode is
\* exported and the owning field's name is upper-case; no alias is
\* declared in any other case, and never one for a top-level record.
AliasExactlyWhenNeeded ==
    rendered =>
        LET declared == {aliasNames(result)[j] : j \in DOMAIN aliasNames(result)}
        IN  /\ \A i \in DOMAIN records :
                  nameIsUnique(i) =>
                      (records[i].Name \in declared
                          <=> needsAlias(records[i], config))
            /\ \A n \in declared :
                  \E i \in nestedNamed(n) : needsAlias(records[i], config)

----------------------------------------------------------------------------
(* Properties of the two writes of one call (specification Spec).          *)

failed == pc = "done" /\ err # NoError

\* C14: no partial success: when a call ends with an error (read, parse,
\* validation, formatter or write), the output file holds exactly what it
\* held before the call (and none has been created).
FailureLeavesOutputUntouched ==
    failed => out = startOut

\* C15: unformatted text is never written: at every moment the output file
\* holds either its content from before the call or the text the formatter
\* returned.
OnlyFormattedTextWritten ==
    \/ out = startOut
    \/ processed # NoFile /\ out = processed

----------------------------------------------------------------------------
(* Properties of the generated names (specification SpecGen).              *)

itemsOf(text, kind) == {j \in DOMAIN text.decls : text.decls[j].k = kind}

\* the exported display name of field n of the struct named S
displayNames(recs, S, n) ==
    {exportName(n, fieldAcronym(f)) :
        f \in UNION {{g \in fieldsOf(recs[i]) : n \in fieldNames(g)} :
                     i \in {j \in DOMAIN recs : recs[j].Name = S}}}

\* every step type is named <Record>_Builder_<ExportedFieldName> and its
\* operation carries the exported field name
stepNamesConform(text, recs) ==
    \A j \in itemsOf(text, "setter") :
        LET d == text.decls[j] IN
        /\ d.name \in displayNames(recs, d.struct, d.field)
        /\ d.recv = d.struct \o BuilderPrefix \o d.name
        /\ \E t \in itemsOf(text, "type") :
              text.decls[t].struct = d.struct /\ text.decls[t].name = d.recv

\* the terminal type is named <Record>_Builder_<fin>, its method is Build,
\* and there is no type besides the step types and the terminal type
terminalConforms(text, fin) ==
    /\ \A j \in itemsOf(text, "build") :
          LET d == text.decls[j] IN
          /\ d.name = <<66, 117, 105, 108, 100>>
          /\ d.recv = d.ret \o BuilderPrefix \o fin
          /\ \E t \in itemsOf(text, "type") :
                text.decls[t].struct = d.ret /\ text.decls[t].name = d.recv
    /\ \A t \in itemsOf(text, "type") :
          \/ text.decls[t].name = text.decls[t].struct \o BuilderPrefix \o fin
          \/ \E j \in itemsOf(text, "setter") :
                /\ text.decls[j].struct = text.decls[t].struct
                /\ text.decls[j].recv = text.decls[t].name

\* New<Record>Builder / new<Record>Builder, the record name capitalised
entryName(prefix, S) == prefix \o exportName(S, FALSE) \o BuilderSuffix

\* "Finalizer"
PlainFinalizerName == <<70, 105, 110, 97, 108, 105, 122, 101, 114>>

----------------------------------------------------------------------------
(* generateCode on a directory: getInputFiles, then generateCodeForFile on *)
(* each input file in turn (specification SpecBatch).                      *)
(* batch is [pcB, isDir, dir, pre, inputFiles, i, outs, log, err]: dir is  *)
(* the directory in the order filepath.Walk visits it, each entry          *)
(* [ext, src] with ext "go" for x.go, "gob" for x_gob.go, "test" for       *)
(* x_test.go and "txt" for any other file; a file is named by its index    *)
(* in dir; outs[f] is the output file of f; log lists the calls of         *)
(* generateCodeForFile made so far, each [file, err].                      *)

\* type W struct { a int } //+gob:Constructor
GoodSource == oneStruct(<<87>>, {"Constructor"}, <<plainField(<<97>>, {})>>)

\* type W struct { G int //+gob:getter } //+gob:Constructor
BadGetterSource ==
    oneStruct(<<87>>, {"Constructor"}, <<plainField(<<71>>, {"getter"})>>)

DirEntries ==
    {[ext |-> "go", src |-> s] :
        s \in {GoodSource, BadGetterSource, Malformed, Unreadable}}
    \cup {[ext |-> e, src |-> GoodSource] : e \in {"gob", "test", "txt"}}

\* filepath.Walk with the three suffix tests: the .go files that are
\* neither generated files nor test files, in the order of the walk
findGoFiles(dir) ==
    SelectSeq([f \in 1..Len(dir) |-> f], LAMBDA f : dir[f].ext = "go")

getInputFiles(b) == IF b.isDir THEN findGoFiles(b.dir) ELSE <<1>>

\* generateCodeForFile from its first to its last statement: the error it
\* returns and what it leaves at the output path; w1, fm, w2 are the
\* outcomes of the first write, of the formatter and of the second write
generateCodeForFile(file, before, cfg, w1, fm, w2) ==
    IF file = Unreadable THEN [err |-> [kind |-> "read"], out |-> before]
    ELSE IF file = Malformed THEN [err |-> [kind |-> "parse"], out |-> before]
    ELSE LET r == Render(file, cfg) IN
         IF r.err # NoError THEN [err |-> r.err, out |-> before]
         ELSE LET raw == WriteFile(before, r.text, w1) IN
              IF w1 # "ok" THEN [err |-> [kind |-> "write"], out |-> raw]
              ELSE IF fm # "ok" THEN [err |-> [kind |-> "format"], out |-> raw]
              ELSE [err |-> IF w2 = "ok" THEN NoError ELSE [kind |-> "write"],
                    out |-> WriteFile(raw, Process(r.text), w2)]

\* a loop that goes on to the next file after a failure:
\* BatchStopsAtFirstFailure tells it from afterFile
afterFileKeepGoing(b, f, r) ==
    [b EXCEPT !.outs[f] = r.out,
              !.log = Append(@, [file |-> f, err |-> r.err]),
              !.err = IF r.err = NoError THEN @
                      ELSE [kind |-> "process", file |-> f, cause |-> r.err],
              !.pcB = IF b.i = Len(b.inputFiles) THEN "done" ELSE "loop",
              !.i = @ + 1]

\* the end of one iteration of `for _, inputFile := range inputFiles`:
\* return the wrapped error, or go on, or return nil after the last file
afterFile(b, f, r) ==
    [b EXCEPT !.outs[f] = r.out,
              !.log = Append(@, [file |-> f, err |-> r.err]),
              !.err = IF r.err = NoError THEN @
                      ELSE [kind |-> "process", file |-> f, cause |-> r.err],
              !.pcB = IF r.err # NoError \/ b.i = Len(b.inputFiles)
                      THEN "done" ELSE "loop",
              !.i = @ + 1]

\* getInputFiles and the test for an empty list
GetInputFiles ==
    /\ batch.pcB = "start"
    /\ \E stat \in {"ok", "failed"} :
          LET files == getInputFiles(batch) IN
          batch' = IF stat = "failed"
                   THEN [batch EXCEPT !.pcB = "done", !.err = [kind |-> "inputs"]]
                   ELSE IF files = <<>>
                   THEN [batch EXCEPT !.pcB = "done", !.err = [kind |-> "nofiles"]]
                   ELSE [batch EXCEPT !.pcB = "loop", !.inputFiles = files]
    /\ UNCHANGED <<src, config, out, mtime, pc, err, io, result, processed,
                   runs, startOut, startMtime, runKey, prevKey, tf>>

\* one iteration of the loop over inputFiles
ProcessFile ==
    /\ batch.pcB = "loop"
    /\ \E w1, w2 \in {"ok", "denied", "partial"}, fm \in {"ok", "failed"} :
          LET f == batch.inputFiles[batch.i] IN
          batch' = afterFile(batch, f,
                             generateCodeForFile(batch.dir[f].src, batch.outs[f],
                                                 config, w1, fm, w2))
    /\ UNCHANGED <<src, config, out, mtime, pc, err, io, result, processed,
                   runs, startOut, startMtime, runKey, prevKey, tf>>

\* directories of at most MaxFiles files, or a single file of any name
Batches ==
    {[pcB |-> "start", isDir |-> d, dir |-> es, pre |-> p, inputFiles |-> <<>>,
      i |-> 1, outs |-> [f \in 1..Len(es) |-> p], log |-> <<>>,
      err |-> NoError] :
        d \in BOOLEAN,
        es \in UNION {[1..n -> DirEntries] : n \in 0..MaxFiles},
        p \in {NoFile, existingFile(<<StaleSignature, [k |-> "package"]>>)}}

InitBatch ==
    /\ batch \in {b \in Batches : ~b.isDir => Len(b.dir) = 1}
    /\ src = GoodSource
    /\ config \in {c \in Configs : c.GenerateFor = "annotated" /\ c.Sort = "abc"}
    /\ out = NoFile
    /\ mtime = 0
    /\ pc = "idle"
    /\ err = NoError
    /\ io = "ok"
    /\ result = NoFile
    /\ processed = NoFile
    /\ runs = 0
    /\ startOut = NoFile
    /\ startMtime = 0
    /\ runKey = NoKey
    /\ prevKey = NoKey
    /\ tf = NoFormat

NextBatch ==
    \/ GetInputFiles
    \/ ProcessFile

SpecBatch == InitBatch /\ [][NextBatch]_vars

\* the text a successful generateCodeForFile leaves for file f
writtenFor(f) == Process(Render(batch.dir[f].src, config).text)

\* C22: the input files are handled one after another in traversal
\* order; the first file whose processing fails ends the batch at once:
\* no later file is read or written, the outputs written for the earlier
\* files stay as they are, and the returned error names the failing file.
BatchStopsAtFirstFailure ==
    batch.pcB \in {"loop", "done"} /\ batch.err.kind \notin {"inputs", "nofiles"} =>
        LET n == Len(batch.log)
            files == batch.inputFiles
        IN  /\ \A k \in 1..(Len(files) - 1) : files[k] < files[k + 1]
            /\ batch.isDir =>
                  \A f \in DOMAIN batch.dir :
                      batch.dir[f].ext = "go"
                          <=> \E k \in DOMAIN files : files[k] = f
            /\ n <= Len(files)
            /\ \A k \in 1..n : batch.log[k].file = files[k]
            /\ \A k \in 1..(n - 1) :
                  /\ batch.log[k].err = NoError
                  /\ batch.outs[files[k]] = writtenFor(files[k])
            /\ \A f \in DOMAIN batch.dir :
                  (\A k \in 1..n : files[k] # f) => batch.outs[f] = batch.pre
            /\ IF n > 0 /\ batch.log[n].err # NoError
               THEN /\ batch.pcB = "done"
                    /\ batch.err = [kind |-> "process", file |-> files[n],
                                    cause |-> batch.log[n].err]
               ELSE /\ batch.err = NoError
                    /\ batch.pcB = "done" <=> n = Len(files)

\* a batch of three files ended at the second: the first output is
\* written, the third file has not been touched
BatchAbortedInTheMiddle ==
    /\ batch.pcB = "done"
    /\ batch.err.kind = "process"
    /\ Len(batch.log) = 2
    /\ Len(batch.inputFiles) = 3
    /\ batch.outs[batch.inputFiles[1]] # batch.pre

----------------------------------------------------------------------------
(* Properties of discovery (specification SpecGen).                        *)
(* A nested anonymous record is located by its path from the top-level     *)
(* struct: a sequence of <<field index, name index>>.                      *)

RECURSIVE pathsOf(_)
pathsOf(st) ==
    UNION {UNION {{<<<<i, j>>>>}
                  \cup {<<<<i, j>>>> \o p :
                           p \in pathsOf(innerStructType(st.fields[i].typ))} :
                  j \in DOMAIN st.fields[i].names} :
           i \in {x \in DOMAIN st.fields : isInnerStructType(st.fields[x].typ)}}

RECURSIVE structAt(_, _)
structAt(st, p) ==
    IF p = <<>> THEN st
    ELSE structAt(innerStructType(st.fields[p[1][1]].typ), Tail(p))

RECURSIVE nameAt(_, _, _)
nameAt(st, base, p) ==
    IF p = <<>> THEN base
    ELSE nameAt(innerStructType(st.fields[p[1][1]].typ),
                base \o st.fields[p[1][1]].names[p[1][2]], Tail(p))

\* the field declaration that owns the record at path p
ownerAt(st, p) == structAt(st, SubSeq(p, 1, Len(p) - 1)).fields[p[Len(p)][1]]

stepLess(a, b) == a[1] < b[1] \/ (a[1] = b[1] /\ a[2] < b[2])

\* q comes before p in depth-first pre-order
before(q, p) ==
    \E k \in 1..(Len(q) + 1) :
        /\ k <= Len(p)
        /\ \A l \in 1..(k - 1) : q[l] = p[l]
        /\ k = Len(q) + 1 \/ stepLess(q[k], p[k])

nestedPaths(st) == pathsOf(st)

\* the number of records discovered for the declarations before the t-th
RECURSIVE offset(_, _)
offset(decls, t) ==
    IF t <= 1 THEN 0
    ELSE offset(decls, t - 1) + 1 + Cardinality(nestedPaths(decls[t - 1].st))

\* C23: the discovered list holds each top-level record immediately
\* followed by all its nested anonymous records (direct or behind one
\* pointer) in depth-first pre-order, fields in declaration order at
\* every level, before the next top-level record, each anonymous record
\* exactly once per owning field name.
DiscoveryIsPreOrder ==
    rendered =>
        /\ Len(records) = offset(src.decls, Len(src.decls) + 1)
        /\ \A t \in DOMAIN src.decls :
              LET d == src.decls[t]
                  at == offset(src.decls, t) + 1
              IN  /\ records[at].TopLevel
                  /\ records[at].Name = d.name
                  /\ records[at].StructType = d.st
                  /\ \A p \in nestedPaths(d.st) :
                        LET r == records[at + 1 + Cardinality(
                                     {q \in nestedPaths(d.st) : before(q, p)})]
                        IN  /\ ~r.TopLevel
                            /\ r.Name = nameAt(d.st, d.name, p)
                            /\ r.StructType = structAt(d.st, p)
                            /\ r.Field = ownerAt(d.st, p)

\* two top-level records, the first with records nested two levels deep
\* under a declaration of two names
NestedForestDiscovered ==
    /\ rendered
    /\ Len(src.decls) = 2
    /\ \E p \in nestedPaths(src.decls[1].st) : Len(p) = 2 /\ p[1][2] = 2
    /\ nestedPaths(src.decls[2].st) # {}

----------------------------------------------------------------------------
(* TypeFormatter (typefmt.go): an expression is rendered as a sequence of  *)
(* tokens, each a string of character codes; the blanks the code writes    *)
(* between tokens are the boundaries of the sequence.  Besides the         *)
(* expressions of the parse tree above there are                           *)
(* [k |-> "array", x], [k |-> "func", params, results] with field lists    *)
(* as sequences of [names, typ], and a struct type carries the identity    *)
(* of its *ast.StructType node in st.id.  aliases is the AliasResolver: a  *)
(* function from node identities to alias names.                           *)

tokLParen == <<40>>
tokRParen == <<41>>
tokComma == <<44>>
tokStar == <<42>>
tokSemi == <<59>>
tokLBrace == <<123>>
tokRBrace == <<125>>
tokBrackets == <<91, 93>>
tokFunc == <<102, 117, 110, 99>>
tokStruct == <<115, 116, 114, 117, 99, 116>>
\* "struct{}" and "interface{}"
tokEmptyStruct == tokStruct \o <<123, 125>>
tokEmptyInterface == <<105, 110, 116, 101, 114, 102, 97, 99, 101, 123, 125>>

\* strings.Join(items, sep)
RECURSIVE Join(_, _)
Join(items, sep) ==
    IF items = <<>> THEN <<>>
    ELSE IF Len(items) = 1 THEN items[1]
    ELSE items[1] \o sep \o Join(Tail(items), sep)

RECURSIVE tfFormat(_, _)
RECURSIVE tupleItems(_, _, _)

\* the loop of formatTuple and formatResults: one item "name typ" per
\* declared name, one item "typ" for a field without names
tupleItems(aliases, fl, i) ==
    IF i > Len(fl) THEN <<>>
    ELSE LET typ == tfFormat(aliases, fl[i].typ) IN
         (IF fl[i].names # <<>>
          THEN [j \in DOMAIN fl[i].names |-> <<fl[i].names[j]>> \o typ]
          ELSE <<typ>>)
         \o tupleItems(aliases, fl, i + 1)

formatTuple(aliases, fl) ==
    IF fl = <<>> THEN <<tokLParen, tokRParen>>
    ELSE <<tokLParen>> \o Join(tupleItems(aliases, fl, 1), <<tokComma>>)
         \o <<tokRParen>>

formatResults(aliases, fl) ==
    IF fl = <<>> THEN <<>>
    ELSE LET items == tupleItems(aliases, fl, 1) IN
         IF Len(items) = 1 THEN items[1]
         ELSE <<tokLParen>> \o Join(items, <<tokComma>>) \o <<tokRParen>>

formatFuncSignature(aliases, ft) ==
    formatTuple(aliases, ft.params) \o formatResults(aliases, ft.results)

formatFuncType(aliases, ft) == <<tokFunc>> \o formatFuncSignature(aliases, ft)

\* the parts of defaultStructHandler
RECURSIVE structParts(_, _, _)
structParts(aliases, st, i) ==
    IF i > Len(st.fields) THEN <<>>
    ELSE LET fieldType == tfFormat(aliases, st.fields[i].typ) IN
         (IF st.fields[i].names = <<>> THEN <<fieldType>>
          ELSE [j \in DOMAIN st.fields[i].names |->
                   <<st.fields[i].names[j]>> \o fieldType])
         \o structParts(aliases, st, i + 1)

defaultStructHandler(aliases, st) ==
    LET parts == structParts(aliases, st, 1) IN
    IF parts = <<>> THEN <<tokEmptyStruct>>
    ELSE <<tokStruct, tokLBrace>> \o Join(parts, <<tokSemi>>) \o <<tokRBrace>>

\* tf.Format, for the expressions of the inputs (identifier,
\* pointer, slice, function, struct); any other kind falls to the default
tfFormat(aliases, expr) ==
    CASE expr.k = "ident" -> <<expr.name>>
      [] expr.k = "star" -> <<tokStar>> \o tfFormat(aliases, expr.x)
      [] expr.k = "array" -> <<tokBrackets>> \o tfFormat(aliases, expr.x)
      [] expr.k = "func" -> formatFuncType(aliases, expr)
      [] expr.k = "struct" ->
            IF expr.st.id \in DOMAIN aliases THEN <<aliases[expr.st.id]>>
            ELSE defaultStructHandler(aliases, expr.st)
      [] OTHER -> <<tokEmptyInterface>>

----------------------------------------------------------------------------
(* One call of tf.Format (specification SpecFmt).                          *)
(* tf is [pcF, file, expr, aliases, text]: the resolver is installed for   *)
(* the records of file, then expr is rendered.                             *)

StarT == [k |-> "star", x |-> [k |-> "ident", name |-> <<84>>]]

\* func(int) error
FuncErr ==
    [k |-> "func",
     params |-> <<[names |-> <<>>, typ |-> IntType]>>,
     results |-> <<[names |-> <<>>,
                    typ |-> [k |-> "ident",
                             name |-> <<101, 114, 114, 111, 114>>]]>>]

\* the fields of a parameter or result list: int, *T, func(int) error
\* without names; a int, a *T, b, c int, b, c *T with names
UnnamedTupleFields ==
    {[names |-> <<>>, typ |-> t] : t \in {IntType, StarT, FuncErr}}

NamedTupleFields ==
    {[names |-> ns, typ |-> t] :
        ns \in {<<<<97>>>>, <<<<98>>, <<99>>>>}, t \in {IntType, StarT}}

\* lists of at most MaxTuple fields, all with names or all without
Tuples ==
    UNION {[1..n -> UnnamedTupleFields] : n \in 0..MaxTuple}
    \cup UNION {[1..n -> NamedTupleFields] : n \in 1..MaxTuple}

FuncTypes == {[k |-> "func", params |-> p, results |-> r] : p, r \in Tuples}

\* an anonymous struct { q int } whose *ast.StructType node is id
leafStruct(id) ==
    [k |-> "struct",
     st |-> [doc |-> {}, fields |-> <<plainField(<<113>>, {})>>, id |-> id]]

\* the fields  BX struct{...};  B struct { X struct{...} };
\* s, T struct{...}  with or without //+gob:Constructor, each present or not
FmtFieldChoices ==
    [1..3 -> {"absent", "plain", "Constructor"}]

fmtDoc(choice) == IF choice = "Constructor" THEN {"Constructor"} ELSE {}

fmtFields(c) ==
    (IF c[1] = "absent" THEN <<>>
     ELSE <<innerField(<<66, 88>>, leafStruct(1), fmtDoc(c[1]))>>)
    \o (IF c[2] = "absent" THEN <<>>
        ELSE <<innerField(<<66>>,
                          [k |-> "struct",
                           st |-> [doc |-> {},
                                   fields |-> <<innerField(<<88>>, leafStruct(3),
                                                           fmtDoc(c[2]))>>,
                                   id |-> 2]],
                          {})>>)
    \o (IF c[3] = "absent" THEN <<>>
        ELSE <<[names |-> <<<<115>>, <<84>>>>, typ |-> leafStruct(4),
                doc |-> fmtDoc(c[3])]>>)

FmtSources ==
    {oneStruct(<<87>>, {"Constructor"}, fmtFields(c)) : c \in FmtFieldChoices}

EmptySource == [kind |-> "source", decls |-> <<>>]

\* the types of the fields that own an anonymous record of file
ownerTypes(file) ==
    {findAllStructs(file)[i].Field.typ :
        i \in {j \in DOMAIN findAllStructs(file) :
                  ~findAllStructs(file)[j].TopLevel}}

FormatCalls ==
    {[pcF |-> "start", file |-> f, expr |-> e, aliases |-> <<>>, text |-> <<>>] :
        f \in {EmptySource}, e \in FuncTypes}
    \cup UNION {{[pcF |-> "start", file |-> f, expr |-> e, aliases |-> <<>>,
                  text |-> <<>>] : e \in ownerTypes(f)} : f \in FmtSources}

\* the names of the records of recs that have an alias and whose struct
\* type is the node id
aliasTargets(recs, cfg, id) ==
    {recs[i].Name :
        i \in {j \in DOMAIN recs : /\ ~recs[j].TopLevel
                                   /\ recs[j].StructType.id = id
                                   /\ shouldGenerateType(recs[j], cfg)}}

\* tf.AliasResolver is set to a lookup by *ast.StructType node that
\* answers with the alias of a record of that node
InstallResolver ==
    /\ tf.pcF = "start"
    /\ LET recs == findAllStructs(tf.file)
           ids == {id \in 1..4 : aliasTargets(recs, config, id) # {}}
       IN  \E a \in [ids -> UNION {aliasTargets(recs, config, id) : id \in ids}] :
              /\ \A id \in ids : a[id] \in aliasTargets(recs, config, id)
              /\ tf' = [tf EXCEPT !.aliases = a, !.pcF = "ready"]
    /\ UNCHANGED <<src, config, out, mtime, pc, err, io, result, processed,
                   runs, startOut, startMtime, runKey, prevKey, batch>>

\* tf.Format(expr)
FormatCall ==
    /\ tf.pcF = "ready"
    /\ tf' = [tf EXCEPT !.text = tfFormat(tf.aliases, tf.expr), !.pcF = "done"]
    /\ UNCHANGED <<src, config, out, mtime, pc, err, io, result, processed,
                   runs, startOut, startMtime, runKey, prevKey, batch>>

InitFmt ==
    /\ tf \in FormatCalls
    /\ src = EmptySource
    /\ config \in {c \in Configs : /\ c.ConstructorVisibility = "exported"
                                   /\ c.Sort = "abc"}
    /\ out = NoFile
    /\ mtime = 0
    /\ pc = "idle"
    /\ err = NoError
    /\ io = "ok"
    /\ result = NoFile
    /\ processed = NoFile
    /\ runs = 0
    /\ startOut = NoFile
    /\ startMtime = 0
    /\ runKey = NoKey
    /\ prevKey = NoKey
    /\ batch = NoBatch

NextFmt ==
    \/ InstallResolver
    \/ FormatCall

SpecFmt == InitFmt /\ [][NextFmt]_vars

----------------------------------------------------------------------------
(* Properties of the rendering of function types (specification SpecFmt).  *)
(* A parser of the type syntax of the language for identifiers, pointers,  *)
(* slices and function types: parseType(ts) is the set of [t, rest] such   *)
(* that a prefix of the tokens ts is the type t and rest follows it.  A    *)
(* parsed list is a sequence of [names, typ] with at most one name each.   *)

reserved ==
    {tokLParen, tokRParen, tokComma, tokStar, tokSemi, tokLBrace, tokRBrace,
     tokBrackets, tokFunc, tokStruct}

RECURSIVE parseType(_)
RECURSIVE parseSignature(_)
RECURSIVE parseList(_, _)

\* the items of a list up to its closing parenthesis, all with a name
\* (named) or all without
parseList(ts, named) ==
    IF ts = <<>> THEN {}
    ELSE IF named /\ (Head(ts) \in reserved \/ Len(ts) < 2) THEN {}
    ELSE UNION {
        LET item == [names |-> IF named THEN <<Head(ts)>> ELSE <<>>,
                     typ |-> p.t]
        IN  IF p.rest = <<>> THEN {}
            ELSE IF Head(p.rest) = tokRParen
            THEN {[items |-> <<item>>, rest |-> Tail(p.rest)]}
            ELSE IF Head(p.rest) = tokComma
            THEN {[items |-> <<item>> \o q.items, rest |-> q.rest] :
                     q \in parseList(Tail(p.rest), named)}
            ELSE {} :
        p \in parseType(IF named THEN Tail(ts) ELSE ts)}

\* ( ), or ( list ) with a list of at least one item
parseTuple(ts) ==
    IF ts = <<>> \/ Head(ts) # tokLParen THEN {}
    ELSE IF Len(ts) >= 2 /\ ts[2] = tokRParen
    THEN {[items |-> <<>>, rest |-> SubSeq(ts, 3, Len(ts))]}
    ELSE parseList(Tail(ts), TRUE) \cup parseList(Tail(ts), FALSE)

\* Parameters, then no result, one type, or a parenthesised list
parseSignature(ts) ==
    UNION {
        {[t |-> [k |-> "func", params |-> p.items, results |-> <<>>],
          rest |-> p.rest]}
        \cup {[t |-> [k |-> "func", params |-> p.items,
                      results |-> <<[names |-> <<>>, typ |-> q.t]>>],
               rest |-> q.rest] : q \in parseType(p.rest)}
        \cup {[t |-> [k |-> "func", params |-> p.items, results |-> q.items],
               rest |-> q.rest] :
                 q \in {x \in parseTuple(p.rest) : x.items # <<>>}} :
        p \in parseTuple(ts)}

parseType(ts) ==
    IF ts = <<>> THEN {}
    ELSE CASE Head(ts) = tokStar ->
                {[t |-> [k |-> "star", x |-> p.t], rest |-> p.rest] :
                    p \in parseType(Tail(ts))}
           [] Head(ts) = tokBrackets ->
                {[t |-> [k |-> "array", x |-> p.t], rest |-> p.rest] :
                    p \in parseType(Tail(ts))}
           [] Head(ts) = tokFunc -> parseSignature(Tail(ts))
           [] Head(ts) \notin reserved ->
                {[t |-> [k |-> "ident", name |-> Head(ts)], rest |-> Tail(ts)]}
           [] OTHER -> {}

\* a type with every field of several names split into fields of one name
RECURSIVE oneNamePerField(_)
RECURSIVE splitNames(_, _)
splitNames(fl, i) ==
    IF i > Len(fl) THEN <<>>
    ELSE (IF fl[i].names = <<>>
          THEN <<[names |-> <<>>, typ |-> oneNamePerField(fl[i].typ)]>>
          ELSE [j \in DOMAIN fl[i].names |->
                   [names |-> <<fl[i].names[j]>>,
                    typ |-> oneNamePerField(fl[i].typ)]])
         \o splitNames(fl, i + 1)

oneNamePerField(t) ==
    CASE t.k \in {"star", "array"} -> [t EXCEPT !.x = oneNamePerField(t.x)]
      [] t.k = "func" -> [k |-> "func", params |-> splitNames(t.params, 1),
                          results |-> splitNames(t.results, 1)]
      [] OTHER -> t

\* the number of results a function type declares
resultCount(ft) == Len(splitNames(ft.results, 1))

funcRendered == tf.pcF = "done" /\ tf.expr.k = "func"

\* C24: a function type is rendered with its parameter list in
\* parentheses; with no result nothing follows, with one result the
\* result follows without parentheses, with two or more they follow as a
\* list in parentheses; and the text is valid source for the same
\* function type whatever parameters and results are named, a single
\* named result included.
FuncTypeRendersValid ==
    funcRendered =>
        LET params == formatTuple(tf.aliases, tf.expr.params)
            after == SubSeq(tf.text, Len(params) + 2, Len(tf.text))
            n == resultCount(tf.expr)
        IN  /\ tf.text[1] = tokFunc
            /\ SubSeq(tf.text, 2, Len(params) + 1) = params
            /\ params[1] = tokLParen /\ params[Len(params)] = tokRParen
            /\ n = 0 => after = <<>>
            /\ (n = 1 /\ tf.expr.results[1].names = <<>>)
                  => after # <<>> /\ after[1] # tokLParen
            /\ n >= 2 => after[1] = tokLParen /\ after[Len(after)] = tokRParen
            /\ \E p \in parseType(tf.text) :
                  p.rest = <<>> /\ p.t = oneNamePerField(tf.expr)

----------------------------------------------------------------------------
(* Properties of alias substitution (specification SpecFmt).               *)

\* the nested anonymous records of the file of the call
nestedRecords ==
    LET recs == findAllStructs(tf.file) IN
    {recs[i] : i \in {j \in DOMAIN recs : ~recs[j].TopLevel}}

sameShape(st1, st2) == [st1 EXCEPT !.id = 0] = [st2 EXCEPT !.id = 0]

----------------------------------------------------------------------------
(* Properties of the accessor methods (specification SpecGen).             *)

\* the i-th record declares a field with the getter directive
hasGetterField(recs, i) ==
    \E k \in DOMAIN recs[i].StructType.fields :
        fieldGetter(recs[i].StructType.fields[k])

\* the j-th declaration of the text is the accessor of a field with the
\* getter directive of a top-level record
accessorOfTopLevel(text, recs, j) ==
    \E i \in DOMAIN recs :
        /\ recs[i].TopLevel
        /\ recs[i].Name = text.decls[j].recv
        /\ \E k \in DOMAIN recs[i].StructType.fields :
              /\ fieldGetter(recs[i].StructType.fields[k])
              /\ text.decls[j].field \in fieldNames(recs[i].StructType.fields[k])

\* C26: no accessor method is ever emitted for a field of an anonymous
\* nested record, even when the field carries the getter directive;
\* every accessor belongs to a getter field of a top-level record.
NoAccessorForNestedRecord ==
    rendered =>
        \A recs \in {records} :
            /\ \A j \in itemsOf(result, "getter") :
                  accessorOfTopLevel(result, recs, j)
            /\ \A i \in DOMAIN recs :
                  ~recs[i].TopLevel =>
                      \A j \in itemsOf(result, "getter") :
                          result.decls[j].recv # recs[i].Name

\* a processed nested record with a getter field next to an accessor of
\* the top-level record
NestedGetterFieldRendered ==
    /\ rendered
    /\ itemsOf(result, "getter") # {}
    /\ \E i \in DOMAIN records :
          /\ ~records[i].TopLevel
          /\ hasGetterField(records, i)
          /\ builderDecls(result, records[i].Name) # {}

----------------------------------------------------------------------------
(* The signature marker of the output (specification Spec).                *)

\* C27: after every successful call, whether the output was written or
\* the write was skipped, the output file starts with a signature marker
\* whose value is the signature computed from the source bytes and the
\* configuration of the call.
OutputCarriesFreshSignature ==
    (pc = "done" /\ err = NoError) =>
        /\ out # NoFile
        /\ extractSignature(out.head) = freshSignature

----------------------------------------------------------------------------
(* Builders of nested records and their aliases (specification SpecGen).   *)

\* the alias names the text declares
declaredAliases(text) == {aliasNames(text)[k] : k \in DOMAIN aliasNames(text)}

\* C28: under every generate-for mode, every nested anonymous record for
\* which a builder chain is emitted also has its alias declaration
\* emitted.
BuilderOfNestedHasAlias ==
    rendered =>
        \A recs \in {records} :
            \A i \in DOMAIN recs :
                (~recs[i].TopLevel /\ builderDecls(result, recs[i].Name) # {})
                    => recs[i].Name \in declaredAliases(result)

----------------------------------------------------------------------------
(* Display names within one record (specification SpecGen).                *)

\* C29: within one processed record, distinct mandatory fields always
\* get distinct step type names and distinct setter names, also for
\* pairs such as name and Name, or an acronym field dob next to DOB.
StepNamesDistinct ==
    rendered =>
        \A i \in DOMAIN records :
            nameIsUnique(i) =>
                \A j1, j2 \in itemsOf(result, "setter") :
                    (/\ result.decls[j1].struct = records[i].Name
                     /\ result.decls[j2].struct = records[i].Name
                     /\ result.decls[j1].field # result.decls[j2].field)
                        => /\ result.decls[j1].name # result.decls[j2].name
                           /\ result.decls[j1].recv # result.decls[j2].recv

----------------------------------------------------------------------------
(* Names of nested records and of top-level records (specification         *)
(* SpecGen).                                                               *)

\* C30: no name emitted for a nested anonymous record equals the name of
\* a top-level record of the same file: the name of a top-level record is
\* never declared again as an alias, and never has two builder families.
NestedNameNotTopLevel ==
    rendered =>
        \A recs \in {records} :
            \A j \in DOMAIN recs :
                recs[j].TopLevel =>
                    /\ recs[j].Name \notin declaredAliases(result)
                    /\ Cardinality(ctorsOf(result, recs[j].Name)) <= 1

====
